---- MODULE Spec2Model ----
(***************************************************************************)
(* Model of the Xero ledger-master reconciliation actor                    *)
(* (src/.actor/src/main.py).                                               *)
(*                                                                         *)
(* A Python str is a sequence of one-character strings; None is the        *)
(* sentinel sequence <<"None">>, which no str equals because every str is  *)
(* made of single characters.  A CSV row (a dict) is a function from       *)
(* header names to cells; a cell is a str or None.  A Decimal is an        *)
(* integer count of 10^-Scale units.  The grouped indices hold positions   *)
(* in the input lists, as the Python dicts hold references to the rows.    *)
(***************************************************************************)
EXTENDS Integers, Sequences, FiniteSets, TLC

\* ------------------------------------------------------------------ bounds
\* The three sources together hold at most MaxRows rows.
MaxRows == 3
\* Decimal values carry Scale fractional digits.
Scale == 3

\* --------------------------------------------------------- str primitives
None == <<"None">>
Empty == <<>>

\* The characters the inputs use, in code-point order.
OrdTable ==
  <<" ", "+", ",", "-", ".", "0", "1", "2", "3", "4", "5", "6", "7", "8", "9",
    ";", "A", "B", "G", "P", "Q", "X", "_", "a", "b", "c", "d", "e", "g", "l",
    "m", "n", "o", "p", "q", "r", "s", "t", "u", "v", "w", "x", "y">>

Ord(c) == CHOOSE i \in DOMAIN OrdTable : OrdTable[i] = c

Lowers == <<"a", "b", "g", "p", "q", "x">>
Uppers == <<"A", "B", "G", "P", "Q", "X">>

UpperChar(c) ==
  IF \E i \in DOMAIN Lowers : Lowers[i] = c
    THEN Uppers[CHOOSE i \in DOMAIN Lowers : Lowers[i] = c]
    ELSE c

LowerChar(c) ==
  IF \E i \in DOMAIN Uppers : Uppers[i] = c
    THEN Lowers[CHOOSE i \in DOMAIN Uppers : Uppers[i] = c]
    ELSE c

\* str.upper(), str.lower()
upper(s) == [i \in DOMAIN s |-> UpperChar(s[i])]
lower(s) == [i \in DOMAIN s |-> LowerChar(s[i])]

IsSpace(c) == c = " "

RECURSIVE lstrip(_)
lstrip(s) ==
  IF s # <<>> /\ IsSpace(Head(s)) THEN lstrip(Tail(s)) ELSE s

RECURSIVE rstrip(_)
rstrip(s) ==
  IF s # <<>> /\ IsSpace(s[Len(s)]) THEN rstrip(SubSeq(s, 1, Len(s) - 1)) ELSE s

\* str.strip()
strip(s) == rstrip(lstrip(s))

\* s.replace(c, "")
RECURSIVE remove_char(_, _)
remove_char(s, c) ==
  IF s = <<>> THEN <<>>
  ELSE IF Head(s) = c THEN remove_char(Tail(s), c)
  ELSE <<Head(s)>> \o remove_char(Tail(s), c)

\* s < t for two str, as Python compares them (by code point, a proper
\* prefix first).
RECURSIVE str_lt(_, _)
str_lt(s, t) ==
  IF t = <<>> THEN FALSE
  ELSE IF s = <<>> THEN TRUE
  ELSE IF Head(s) = Head(t) THEN str_lt(Tail(s), Tail(t))
  ELSE Ord(Head(s)) < Ord(Head(t))

\* sorted(set of str)
RECURSIVE sorted(_)
sorted(S) ==
  IF S = {} THEN <<>>
  ELSE LET m == CHOOSE x \in S : \A y \in S \ {x} : str_lt(x, y)
       IN  <<m>> \o sorted(S \ {m})

\* sep.join(list of str)
RECURSIVE join(_, _)
join(sep, parts) ==
  IF parts = <<>> THEN <<>>
  ELSE IF Len(parts) = 1 THEN parts[1]
  ELSE parts[1] \o sep \o join(sep, Tail(parts))

\* bool(value) of a cell
Truthy(v) == v # None /\ v # <<>>

\* a or b
Or(a, b) == IF Truthy(a) THEN a ELSE b

\* row.get(header)
get(row, h) == IF h \in DOMAIN row THEN row[h] ELSE None

\* ------------------------------------------------------------- helpers
norm(value) == IF value = None THEN <<>> ELSE strip(value)

\* ---------------------------------------------------------------- Decimal
IsDigit(c) == c \in {"0", "1", "2", "3", "4", "5", "6", "7", "8", "9"}

DigitVal(c) == Ord(c) - Ord("0")

RECURSIVE Pow10(_)
Pow10(n) == IF n = 0 THEN 1 ELSE 10 * Pow10(n - 1)

\* The number a string of digits denotes ("" denotes 0).
RECURSIVE DigitsVal(_)
DigitsVal(ds) ==
  IF ds = <<>> THEN 0
  ELSE 10 * DigitsVal(SubSeq(ds, 1, Len(ds) - 1)) + DigitVal(ds[Len(ds)])

\* decimal.Decimal(s) for the plain numerals [sign] digits [. digits]: whether
\* the constructor accepts s (it raises InvalidOperation otherwise) and the
\* value in 10^-Scale units.  The inputs carry at most Scale fractional digits.
Decimal(s) ==
  LET signed == s # <<>> /\ Head(s) \in {"+", "-"}
      body   == IF signed THEN Tail(s) ELSE s
      dots   == {i \in DOMAIN body : body[i] = "."}
      dot    == IF dots = {} THEN Len(body) + 1 ELSE CHOOSE i \in dots : TRUE
      int    == SubSeq(body, 1, dot - 1)
      frac   == SubSeq(body, dot + 1, Len(body))
      ok     == /\ Cardinality(dots) <= 1
                /\ \A i \in DOMAIN body : i \in dots \/ IsDigit(body[i])
                /\ Len(int) + Len(frac) >= 1
      mag    == DigitsVal(int) * Pow10(Scale)
                  + DigitsVal(frac) * Pow10(Scale - Len(frac))
  IN  IF ~ok THEN [ok |-> FALSE, value |-> 0]
      ELSE [ok |-> TRUE,
            value |-> IF signed /\ Head(s) = "-" THEN 0 - mag ELSE mag]

safe_decimal(value) ==
  LET s == norm(value)
  IN  IF s = <<>> THEN 0
      ELSE LET d == Decimal(remove_char(s, ","))
           IN  IF d.ok THEN d.value ELSE 0

\* f"{d:.2f}": the two-decimal numeral printed, as a count of cents.  Decimal
\* formatting rounds half to even.
fmt2(d) ==
  LET a    == IF d < 0 THEN 0 - d ELSE d
      unit == Pow10(Scale - 2)
      q    == a \div unit
      r    == a % unit
      c    == IF 2 * r > unit \/ (2 * r = unit /\ q % 2 = 1) THEN q + 1 ELSE q
  IN  IF d < 0 THEN 0 - c ELSE c

\* ---------------------------------------------------------- key extractors
ledger_invoice_key(row) ==
  upper(norm(Or(Or(get(row, "Invoice Number"), get(row, "Invoice number")),
                get(row, "Invoice"))))

\* invoice_guid_key without the case fold.
invoice_guid_key_no_fold(row) ==
  norm(Or(Or(get(row, "Invoice ID"), get(row, "InvoiceId")),
          get(row, "Invoice_GUID")))

invoice_guid_key(row) ==
  lower(norm(Or(Or(get(row, "Invoice ID"), get(row, "InvoiceId")),
                get(row, "Invoice_GUID"))))

invoice_number_key(row) ==
  upper(norm(Or(Or(Or(get(row, "Xero number"), get(row, "Invoice Number")),
                   get(row, "Invoice number")),
                get(row, "Invoice"))))

manifest_guid_key(row) ==
  lower(norm(Or(Or(get(row, "Invoice ID"), get(row, "InvoiceId")),
                get(row, "Invoice_GUID"))))

manifest_pdf_path(row) ==
  norm(Or(Or(Or(get(row, "PDF_Path"), get(row, "PdfPath")),
             get(row, "FilePath")),
          get(row, "Path")))

\* -------------------------------------------------------------- sum_field
\* The inner loop of sum_field without its break: every candidate header with
\* a value is added.
RECURSIVE row_amount_no_break(_, _)
row_amount_no_break(row, candidates) ==
  IF candidates = <<>> THEN 0
  ELSE (IF Head(candidates) \in DOMAIN row /\ norm(row[Head(candidates)]) # <<>>
          THEN safe_decimal(row[Head(candidates)]) ELSE 0)
       + row_amount_no_break(row, Tail(candidates))

\* The inner loop of sum_field: what one row adds to the total.
RECURSIVE row_amount(_, _)
row_amount(row, candidates) ==
  IF candidates = <<>> THEN 0
  ELSE IF Head(candidates) \in DOMAIN row /\ norm(row[Head(candidates)]) # <<>>
    THEN safe_decimal(row[Head(candidates)])
  ELSE row_amount(row, Tail(candidates))

RECURSIVE sum_field(_, _)
sum_field(rows, candidates) ==
  IF rows = <<>> THEN 0
  ELSE row_amount(Head(rows), candidates) + sum_field(Tail(rows), candidates)

GrossCandidates == <<"Gross (AUD)", "Gross", "Gross (Source)">>
LineCandidates == <<"Line amount", "Line Amount", "Line total", "Line Total">>

\* ------------------------------------------------------------ the indices
EmptyDict == <<>>

\* The rows a list of positions refers to.
RowsAt(rows, refs) == [i \in DOMAIN refs |-> rows[refs[i]]]

\* for r in rows: k = key(r); if not k: continue; d.setdefault(k, []).append(r)
\* over the first n rows, given the key of every row.
RECURSIVE group(_, _)
group(keys, n) ==
  IF n = 0 THEN EmptyDict
  ELSE LET acc == group(keys, n - 1)
           k   == keys[n]
       IN  IF k = <<>> THEN acc
           ELSE IF k \in DOMAIN acc THEN [acc EXCEPT ![k] = Append(@, n)]
           ELSE acc @@ (k :> <<n>>)

build_ledger_by_invnum(lrows) ==
  group([i \in DOMAIN lrows |-> ledger_invoice_key(lrows[i])], Len(lrows))

build_invoice_by_guid(irows) ==
  group([i \in DOMAIN irows |-> invoice_guid_key(irows[i])], Len(irows))

build_invoice_by_invnum(irows) ==
  group([i \in DOMAIN irows |-> invoice_number_key(irows[i])], Len(irows))

build_manifest_by_guid(mrows) ==
  group([i \in DOMAIN mrows |-> manifest_guid_key(mrows[i])], Len(mrows))

\* d.get(k, [])
get_list(d, k) == IF k \in DOMAIN d THEN d[k] ELSE <<>>

\* The GUID key space without the manifest's keys.
union_guid_keys_invoice_only(ibg, mbg) == DOMAIN ibg

union_guid_keys(ibg, mbg) == DOMAIN ibg \cup DOMAIN mbg

\* ------------------------------------------------------------------ pass 1
first_row(rows) == IF rows # <<>> THEN rows[1] ELSE EmptyDict

\* ledger_by_invnum.get(inv_num, []) if inv_num else []
ledger_refs_for_invoice(lbi, inv_num) ==
  IF inv_num # <<>> THEN get_list(lbi, inv_num) ELSE <<>>

\* A presence flag that needs more than one row.
presence_flag_many(rows) == IF Len(rows) > 1 THEN "Y" ELSE "N"

presence_flag(rows) == IF rows # <<>> THEN "Y" ELSE "N"

pdf_paths_of(man_rows) ==
  sorted({manifest_pdf_path(man_rows[i]) : i \in
            {j \in DOMAIN man_rows : manifest_pdf_path(man_rows[j]) # <<>>}})

\* The body of "for guid in sorted(guid_keys)": the record appended and the
\* ledger rows it was built from.
guid_record(yr, guid, lrows, irows, mrows, lbi, ibg, mbg) ==
  LET inv_rows  == RowsAt(irows, get_list(ibg, guid))
      man_rows  == RowsAt(mrows, get_list(mbg, guid))
      first_inv == first_row(inv_rows)
      inv_num   == invoice_number_key(first_inv)
      refs      == ledger_refs_for_invoice(lbi, inv_num)
      ledger_rows_for_invoice == RowsAt(lrows, refs)
      pdf_paths == pdf_paths_of(man_rows)
  IN  [ row |->
          [ Year               |-> yr,
            Invoice_GUID       |-> guid,
            Invoice_Number     |-> inv_num,
            Invoice_Line_Count |-> Len(inv_rows),
            Invoice_Line_Total |-> fmt2(sum_field(inv_rows, LineCandidates)),
            In_Ledger          |-> presence_flag(ledger_rows_for_invoice),
            Ledger_Row_Count   |-> Len(ledger_rows_for_invoice),
            Ledger_Gross_AUD   |->
              fmt2(sum_field(ledger_rows_for_invoice, GrossCandidates)),
            In_Manifest        |-> presence_flag(man_rows),
            Manifest_Row_Count |-> Len(man_rows),
            PDF_Present        |-> IF pdf_paths # <<>> THEN "Y" ELSE "N",
            PDF_Count          |-> Len(pdf_paths),
            PDF_Paths          |-> join(<<";", " ">>, pdf_paths) ],
        refs |-> refs ]

\* The GUID keys in descending order.
guid_order_descending(keys) ==
  LET up == sorted(keys) IN [i \in DOMAIN up |-> up[Len(up) + 1 - i]]

guid_order(keys) == sorted(keys)

pass1(yr, lrows, irows, mrows, lbi, ibg, mbg, keys) ==
  LET order == guid_order(keys)
  IN  [i \in DOMAIN order |->
         guid_record(yr, order[i], lrows, irows, mrows, lbi, ibg, mbg)]

\* ------------------------------------------------------------------ pass 2
invnums_from_guid(irows, ibg) ==
  {invoice_number_key(RowsAt(irows, ibg[g])[1]) :
     g \in {h \in DOMAIN ibg : ibg[h] # <<>>}}

ledger_only(lbi, irows, ibg) == DOMAIN lbi \ invnums_from_guid(irows, ibg)

\* The body of "for inv_num in sorted(ledger_only_invnums)".
ledger_only_record(yr, inv_num, lrows, lbi) ==
  LET refs   == get_list(lbi, inv_num)
      l_rows == RowsAt(lrows, refs)
  IN  [ row |->
          [ Year               |-> yr,
            Invoice_GUID       |-> <<>>,
            Invoice_Number     |-> inv_num,
            Invoice_Line_Count |-> 0,
            Invoice_Line_Total |-> 0,
            In_Ledger          |-> "Y",
            Ledger_Row_Count   |-> Len(l_rows),
            Ledger_Gross_AUD   |-> fmt2(sum_field(l_rows, GrossCandidates)),
            In_Manifest        |-> "N",
            Manifest_Row_Count |-> 0,
            PDF_Present        |-> "N",
            PDF_Count          |-> 0,
            PDF_Paths          |-> <<>> ],
        refs |-> refs ]

invnum_order(keys) == sorted(keys)

pass2(yr, lrows, lbi, only) ==
  LET order == invnum_order(only)
  IN  [i \in DOMAIN order |-> ledger_only_record(yr, order[i], lrows, lbi)]

\* master_rows.append(...) over both loops
Rows(recs) == [i \in DOMAIN recs |-> recs[i].row]
Refs(recs) == [i \in DOMAIN recs |-> recs[i].refs]

\* main, lines 221-384, as one function of the run's inputs: the Master
\* Records with the ledger rows each was built from.
main_records(yr, lrows, irows, mrows) ==
  LET lbi  == build_ledger_by_invnum(lrows)
      ibg  == build_invoice_by_guid(irows)
      mbg  == build_manifest_by_guid(mrows)
      keys == union_guid_keys(ibg, mbg)
  IN  pass1(yr, lrows, irows, mrows, lbi, ibg, mbg, keys)
        \o pass2(yr, lrows, lbi, ledger_only(lbi, irows, ibg))

\* ------------------------------------------------------------- the inputs
\* Cells are written as character sequences; Cell2 pairs one header with
\* one cell.
Cell2(h, v) == h :> v

LedgerRowPool ==
  { Cell2("Invoice Number", <<"a">>) @@ Cell2("Gross (AUD)", <<"1">>),
    Cell2("Invoice Number", <<" ", "A", " ">>) @@ Cell2("Gross", <<"2", ".", "0", "0", "5">>),
    Cell2("Invoice number", <<"b">>) @@ Cell2("Gross (AUD)", <<" ">>)
      @@ Cell2("Gross", <<"1", ",", "0">>),
    Cell2("Invoice Number", <<" ">>) @@ Cell2("Invoice", <<"b">>)
      @@ Cell2("Gross", <<"5">>),
    Cell2("Invoice", <<"B">>) @@ Cell2("Gross (AUD)", <<"x">>)
      @@ Cell2("Gross", <<"3">>),
    Cell2("Invoice Number", None) @@ Cell2("Invoice", <<"a">>)
      @@ Cell2("Gross (AUD)", None) @@ Cell2("Gross (Source)", <<"0", ".", "0", "0", "5">>),
    Cell2("Invoice Number", <<>>) @@ Cell2("Gross", <<"7">>) }

InvoiceRowPool ==
  { Cell2("Invoice ID", <<"g", "1">>) @@ Cell2("Xero number", <<"a">>)
      @@ Cell2("Line amount", <<"1">>),
    Cell2("Invoice ID", <<"G", "1", " ">>) @@ Cell2("Xero number", <<"b">>)
      @@ Cell2("Line amount", <<>>) @@ Cell2("Line Amount", <<"2">>),
    Cell2("InvoiceId", <<"g", "2">>) @@ Cell2("Invoice Number", <<"A">>),
    Cell2("Invoice_GUID", <<"g", "2">>) @@ Cell2("Xero number", <<" ">>)
      @@ Cell2("Invoice", <<"b">>),
    Cell2("Invoice ID", <<>>) @@ Cell2("Xero number", <<"b">>) }

ManifestRowPool ==
  { Cell2("Invoice ID", <<"G", "1">>) @@ Cell2("PDF_Path", <<"p">>),
    Cell2("InvoiceId", <<" ", "g", "1">>) @@ Cell2("PdfPath", <<" ", "q", " ">>),
    Cell2("Invoice_GUID", <<"g", "3">>) @@ Cell2("Path", <<"p">>),
    Cell2("Invoice ID", <<"g", "2">>) @@ Cell2("PDF_Path", <<" ">>) }

UrlCells == {None, <<" ">>, <<"u">>}
YearCells == {<<" ", "1", "6">>}

\* Actor.get_input() or {}: the run's input object.
ActorInputs ==
  { Cell2("Year", y) @@ Cell2("LedgerUrl", l) @@ Cell2("InvoiceUrl", i)
      @@ Cell2("ManifestUrl", m) :
      y \in YearCells, l \in UrlCells, i \in UrlCells, m \in UrlCells }
  \cup {EmptyDict}

\* The lists of at most n rows of a pool.
Lists(pool, n) == UNION {[1..k -> pool] : k \in 0..n}

\* What a locator answers: the fetch fails, or the rows its text parses to.
Unreachable == [ok |-> FALSE, rows |-> <<>>]
Responses(pool, n) == {Unreachable} \cup {[ok |-> TRUE, rows |-> rs] : rs \in Lists(pool, n)}

\* download_csv(url, label) against a response: the rows returned, whether
\* urlopen was called and whether its exception left the function.
download_csv(url, resp) ==
  IF url = <<>> THEN [raised |-> FALSE, fetched |-> FALSE, rows |-> <<>>]
  ELSE IF ~resp.ok THEN [raised |-> TRUE, fetched |-> TRUE, rows |-> <<>>]
  ELSE [raised |-> FALSE, fetched |-> TRUE, rows |-> resp.rows]

\* The locator test with "and" for "or".
missing_url_all(lu, iu, mu) == lu = <<>> /\ iu = <<>> /\ mu = <<>>

\* not ledger_url or not invoice_url or not manifest_url
missing_url(lu, iu, mu) == lu = <<>> \/ iu = <<>> \/ mu = <<>>

\* not (ledger_rows or invoice_rows or manifest_rows)
all_empty(lrows, irows, mrows) == ~(lrows # <<>> \/ irows # <<>> \/ mrows # <<>>)

\* f"ledger_master_{filename_year}.csv"
kv_filename_of(yr) ==
  <<"l", "e", "d", "g", "e", "r", "_", "m", "a", "s", "t", "e", "r", "_">>
    \o (IF yr # <<>> THEN yr ELSE <<"u", "n", "k", "n", "o", "w", "n">>)
    \o <<".", "c", "s", "v">>

\* ------------------------------------------------------------------ state
VARIABLES
  pc,                 \* where main() stands
  actor_input,        \* the input object as read
  year, ledger_url, invoice_url, manifest_url,
  ledger_rows, invoice_rows, manifest_rows,
  ledger_by_invnum, invoice_by_guid, invoice_by_invnum, manifest_by_guid,
  guid_keys,
  master_rows,        \* the Master Records appended so far
  matched,            \* per Master Record, the positions of its ledger rows
  ledger_only_invnums,
  kv_store,           \* what Actor.set_value has written
  dataset,            \* what Actor.push_data has pushed
  events              \* the external calls made, in order

vars ==
  << pc, actor_input, year, ledger_url, invoice_url, manifest_url,
     ledger_rows, invoice_rows, manifest_rows,
     ledger_by_invnum, invoice_by_guid, invoice_by_invnum, manifest_by_guid,
     guid_keys, master_rows, matched, ledger_only_invnums,
     kv_store, dataset, events >>

inputVars == <<actor_input, year, ledger_url, invoice_url, manifest_url>>
rowVars == <<ledger_rows, invoice_rows, manifest_rows>>
indexVars ==
  <<ledger_by_invnum, invoice_by_guid, invoice_by_invnum, manifest_by_guid, guid_keys>>
recordVars == <<master_rows, matched, ledger_only_invnums>>
outputVars == <<kv_store, dataset>>

Init ==
  /\ pc = "get_input"
  /\ actor_input = EmptyDict
  /\ year = <<>> /\ ledger_url = <<>> /\ invoice_url = <<>> /\ manifest_url = <<>>
  /\ ledger_rows = <<>> /\ invoice_rows = <<>> /\ manifest_rows = <<>>
  /\ ledger_by_invnum = EmptyDict /\ invoice_by_guid = EmptyDict
  /\ invoice_by_invnum = EmptyDict /\ manifest_by_guid = EmptyDict
  /\ guid_keys = {}
  /\ master_rows = <<>> /\ matched = <<>> /\ ledger_only_invnums = {}
  /\ kv_store = <<>> /\ dataset = <<>>
  /\ events = <<>>

\* ---------------------------------------------------------------- actions
\* main, lines 192-198: read the input object and normalise its four fields.
GetInput ==
  /\ pc = "get_input"
  /\ actor_input' \in ActorInputs
  /\ year' = norm(get(actor_input', "Year"))
  /\ ledger_url' = norm(get(actor_input', "LedgerUrl"))
  /\ invoice_url' = norm(get(actor_input', "InvoiceUrl"))
  /\ manifest_url' = norm(get(actor_input', "ManifestUrl"))
  /\ pc' = "check_urls"
  /\ events' = Append(events, "get_input")
  /\ UNCHANGED <<rowVars, indexVars, recordVars, outputVars>>

\* main, lines 200-205: a locator is missing; log and return.
RejectMissingUrl ==
  /\ pc = "check_urls"
  /\ missing_url(ledger_url, invoice_url, manifest_url)
  /\ pc' = "returned"
  /\ events' = Append(events, "log_error")
  /\ UNCHANGED <<inputVars, rowVars, indexVars, recordVars, outputVars>>

\* main, line 208
DownloadLedger ==
  /\ pc = "check_urls"
  /\ ~missing_url(ledger_url, invoice_url, manifest_url)
  /\ \E resp \in Responses(LedgerRowPool, MaxRows) :
       LET r == download_csv(ledger_url, resp)
       IN  /\ ledger_rows' = r.rows
           /\ pc' = IF r.raised THEN "raised" ELSE "download_invoice"
           /\ events' = IF r.fetched THEN Append(events, "fetch_ledger") ELSE events
  /\ UNCHANGED <<inputVars, invoice_rows, manifest_rows, indexVars, recordVars, outputVars>>

\* main, line 209
DownloadInvoice ==
  /\ pc = "download_invoice"
  /\ \E resp \in Responses(InvoiceRowPool, MaxRows - Len(ledger_rows)) :
       LET r == download_csv(invoice_url, resp)
       IN  /\ invoice_rows' = r.rows
           /\ pc' = IF r.raised THEN "raised" ELSE "download_manifest"
           /\ events' = IF r.fetched THEN Append(events, "fetch_invoice") ELSE events
  /\ UNCHANGED <<inputVars, ledger_rows, manifest_rows, indexVars, recordVars, outputVars>>

\* main, line 210
DownloadManifest ==
  /\ pc = "download_manifest"
  /\ \E resp \in Responses(ManifestRowPool,
                            MaxRows - Len(ledger_rows) - Len(invoice_rows)) :
       LET r == download_csv(manifest_url, resp)
       IN  /\ manifest_rows' = r.rows
           /\ pc' = IF r.raised THEN "raised" ELSE "check_empty"
           /\ events' = IF r.fetched THEN Append(events, "fetch_manifest") ELSE events
  /\ UNCHANGED <<inputVars, ledger_rows, invoice_rows, indexVars, recordVars, outputVars>>

\* main, lines 217-219: nothing was loaded; log and return.
RejectAllEmpty ==
  /\ pc = "check_empty"
  /\ all_empty(ledger_rows, invoice_rows, manifest_rows)
  /\ pc' = "returned"
  /\ events' = Append(events, "log_error")
  /\ UNCHANGED <<inputVars, rowVars, indexVars, recordVars, outputVars>>

\* main, lines 221-252: the four indices and the GUID key space.
BuildIndices ==
  /\ pc = "check_empty"
  /\ ~all_empty(ledger_rows, invoice_rows, manifest_rows)
  /\ ledger_by_invnum' = build_ledger_by_invnum(ledger_rows)
  /\ invoice_by_guid' = build_invoice_by_guid(invoice_rows)
  /\ invoice_by_invnum' = build_invoice_by_invnum(invoice_rows)
  /\ manifest_by_guid' = build_manifest_by_guid(manifest_rows)
  /\ guid_keys' = union_guid_keys(invoice_by_guid', manifest_by_guid')
  /\ pc' = "pass1"
  /\ UNCHANGED <<inputVars, rowVars, recordVars, outputVars, events>>

\* main, lines 255-325: one record per GUID.
Pass1 ==
  /\ pc = "pass1"
  /\ LET recs == pass1(year, ledger_rows, invoice_rows, manifest_rows,
                       ledger_by_invnum, invoice_by_guid, manifest_by_guid, guid_keys)
     IN  /\ master_rows' = master_rows \o Rows(recs)
         /\ matched' = matched \o Refs(recs)
  /\ pc' = "pass2"
  /\ UNCHANGED <<inputVars, rowVars, indexVars, ledger_only_invnums, outputVars, events>>

\* main, lines 327-384: one record per ledger-only invoice number.
Pass2 ==
  /\ pc = "pass2"
  /\ ledger_only_invnums' = ledger_only(ledger_by_invnum, invoice_rows, invoice_by_guid)
  /\ LET recs == pass2(year, ledger_rows, ledger_by_invnum, ledger_only_invnums')
     IN  /\ master_rows' = master_rows \o Rows(recs)
         /\ matched' = matched \o Refs(recs)
  /\ pc' = "write_csv"
  /\ UNCHANGED <<inputVars, rowVars, indexVars, outputVars, events>>

\* main, lines 386-426: the CSV artifact, one line per Master Record.
WriteCsv ==
  /\ pc = "write_csv"
  /\ kv_store' = Append(kv_store, [key |-> kv_filename_of(year), rows |-> master_rows])
  /\ events' = Append(events, "set_value")
  /\ pc' = "push_summary"
  /\ UNCHANGED <<inputVars, rowVars, indexVars, recordVars, dataset>>

\* main, lines 428-438: the summary record.
PushSummary ==
  /\ pc = "push_summary"
  /\ dataset' = Append(dataset,
       [ year |-> year,
         ledger_rows |-> Len(ledger_rows),
         invoice_rows |-> Len(invoice_rows),
         manifest_rows |-> Len(manifest_rows),
         guid_keys |-> Cardinality(guid_keys),
         ledger_only_invoice_numbers |-> Cardinality(ledger_only_invnums),
         master_rows |-> Len(master_rows),
         kv_filename |-> kv_filename_of(year) ])
  /\ events' = Append(events, "push_data")
  /\ pc' = "finished"
  /\ UNCHANGED <<inputVars, rowVars, indexVars, recordVars, kv_store>>

Next ==
  \/ GetInput
  \/ RejectMissingUrl
  \/ DownloadLedger
  \/ DownloadInvoice
  \/ DownloadManifest
  \/ RejectAllEmpty
  \/ BuildIndices
  \/ Pass1
  \/ Pass2
  \/ WriteCsv
  \/ PushSummary

Spec == Init /\ [][Next]_vars

\* ------------------------------------------------------- claim vocabulary
\* Both loops of the reconciliation have run.
Reconciled == pc \in {"write_csv", "push_summary", "finished"}

\* A cell that is absent, None or blank after trimming.
Blank(v) == v = None \/ \A i \in DOMAIN v : v[i] = " "

\* The positions of the ledger rows whose invoice-number key is not empty.
KeyedLedgerRows ==
  {i \in DOMAIN ledger_rows : ledger_invoice_key(ledger_rows[i]) # <<>>}

\* The Master Records that count ledger row i among their matched rows.
RecordsCounting(i) ==
  {r \in DOMAIN matched : \E j \in DOMAIN matched[r] : matched[r][j] = i}

GuidRecords == {r \in DOMAIN master_rows : master_rows[r].Invoice_GUID # <<>>}
LedgerOnlyRecords == {r \in DOMAIN master_rows : master_rows[r].Invoice_GUID = <<>>}

RECURSIVE SumOver(_, _)
SumOver(f, S) ==
  IF S = {} THEN 0
  ELSE LET x == CHOOSE y \in S : TRUE IN f[x] + SumOver(f, S \ {x})

FetchEvents == {"fetch_ledger", "fetch_invoice", "fetch_manifest"}
Fetched == \E i \in DOMAIN events : events[i] \in FetchEvents

\* ------------------------------------------------------------------ C1
\* C1: once both passes have run, every ledger row with a non-empty
\* invoice-number key is among the matched ledger rows of exactly one Master
\* Record.
C1_EachLedgerRowCountedOnce ==
  Reconciled =>
    \A i \in KeyedLedgerRows : Cardinality(RecordsCounting(i)) = 1

\* ------------------------------------------------------------------ C2
\* C2: conservation.  The Ledger_Gross_AUD of all Master Records add up to
\* the gross field (first non-empty of the three gross headers) of all ledger
\* rows with a non-empty invoice-number key.
C2_Conservation ==
  Reconciled =>
    SumOver([r \in DOMAIN master_rows |-> master_rows[r].Ledger_Gross_AUD],
            DOMAIN master_rows) * Pow10(Scale - 2)
      = SumOver([i \in DOMAIN ledger_rows |->
                   row_amount(ledger_rows[i], GrossCandidates)],
                KeyedLedgerRows)

\* ------------------------------------------------------------------ C3
\* The keys the rows of the inputs carry, read off the inputs.
InvoiceGuidsSeen ==
  {invoice_guid_key(invoice_rows[i]) : i \in DOMAIN invoice_rows} \ {<<>>}
ManifestGuidsSeen ==
  {manifest_guid_key(manifest_rows[i]) : i \in DOMAIN manifest_rows} \ {<<>>}
LedgerInvnumsSeen ==
  {ledger_invoice_key(ledger_rows[i]) : i \in DOMAIN ledger_rows} \ {<<>>}
\* The first invoice row of the group of GUID g.
FirstOfGroup(g) ==
  CHOOSE i \in DOMAIN invoice_rows :
    /\ invoice_guid_key(invoice_rows[i]) = g
    /\ \A j \in 1..(i - 1) : invoice_guid_key(invoice_rows[j]) # g
GroupInvnums ==
  {invoice_number_key(invoice_rows[FirstOfGroup(g)]) : g \in InvoiceGuidsSeen}

\* C3: union property.  (a) the GUID-keyed records carry exactly the GUIDs
\* of the invoice and manifest rows, each once; (b) the records with an empty
\* GUID carry exactly the ledger invoice numbers that are not the invoice
\* number of the first row of a GUID group, each once; (c) no ledger-only
\* invoice number is the Invoice_Number of a GUID-keyed record.
C3_UnionProperty ==
  Reconciled =>
    /\ {master_rows[r].Invoice_GUID : r \in GuidRecords}
         = InvoiceGuidsSeen \cup ManifestGuidsSeen
    /\ \A r, q \in GuidRecords :
         master_rows[r].Invoice_GUID = master_rows[q].Invoice_GUID => r = q
    /\ {master_rows[r].Invoice_Number : r \in LedgerOnlyRecords}
         = LedgerInvnumsSeen \ GroupInvnums
    /\ \A r, q \in LedgerOnlyRecords :
         master_rows[r].Invoice_Number = master_rows[q].Invoice_Number => r = q
    /\ \A r \in LedgerOnlyRecords, q \in GuidRecords :
         master_rows[r].Invoice_Number # master_rows[q].Invoice_Number

\* A run with a GUID seen only in the manifest, a GUID seen only in the
\* invoice master and a ledger-only invoice number.
C3_Witness ==
  /\ pc = "finished"
  /\ ManifestGuidsSeen \ InvoiceGuidsSeen # {}
  /\ InvoiceGuidsSeen \ ManifestGuidsSeen # {}
  /\ LedgerOnlyRecords # {}
  /\ Len(master_rows) = 3

\* ------------------------------------------------------------------ C4
MissingLocator ==
  \/ Blank(get(actor_input, "LedgerUrl"))
  \/ Blank(get(actor_input, "InvoiceUrl"))
  \/ Blank(get(actor_input, "ManifestUrl"))

NoOutput == kv_store = <<>> /\ dataset = <<>>

\* The three downloads have returned.
Loaded ==
  /\ ~MissingLocator
  /\ pc \in {"check_empty", "returned", "pass1", "pass2", "write_csv",
             "push_summary", "finished"}

\* C4: a run whose input lacks a locator (absent, or blank after trimming)
\* ends before any fetch and without output; a run whose three loaded lists
\* are all empty ends without output; and the summary is pushed only after
\* the CSV artifact was written.
C4_FatalConditionsNoOutput ==
  /\ (pc # "get_input" /\ MissingLocator) =>
       pc \in {"check_urls", "returned"} /\ ~Fetched /\ NoOutput
  /\ (Loaded /\ ledger_rows = <<>> /\ invoice_rows = <<>> /\ manifest_rows = <<>>) =>
       pc \in {"check_empty", "returned"} /\ NoOutput
  /\ \A i \in DOMAIN events :
       events[i] = "push_data" => \E j \in 1..(i - 1) : events[j] = "set_value"

\* A run that ended because a locator was given but blank.
C4_Witness ==
  /\ pc = "returned"
  /\ get(actor_input, "InvoiceUrl") = <<" ">>
  /\ get(actor_input, "LedgerUrl") = <<"u">>
  /\ get(actor_input, "ManifestUrl") = <<"u">>

\* ------------------------------------------------------------------ C5
\* C5: the source loader never aborts the run.  No fetch failure leaves
\* download_csv as an exception, and a run ends without output only when a
\* locator is missing or all three sources are empty.
C5_LoaderNeverAborts ==
  /\ pc # "raised"
  /\ (pc = "returned") =>
       \/ MissingLocator
       \/ ledger_rows = <<>> /\ invoice_rows = <<>> /\ manifest_rows = <<>>

\* ------------------------------------------------------------------ C6
\* The list with the rows at positions k and k + 1 exchanged.  Every order of
\* a list is reached from every other by such exchanges, and every order is
\* an input of some run.
Exchanged(rows, k) ==
  [i \in DOMAIN rows |->
     IF i = k THEN rows[k + 1] ELSE IF i = k + 1 THEN rows[k] ELSE rows[i]]
Exchanges(rows) == {rows} \cup {Exchanged(rows, k) : k \in 1..(Len(rows) - 1)}

\* The (Invoice_GUID, Invoice_Number) pairs of a list of built records.
KeysOf(recs) ==
  [i \in DOMAIN recs |-> <<recs[i].row.Invoice_GUID, recs[i].row.Invoice_Number>>]
GuidsOf(recs) ==
  SelectSeq([i \in DOMAIN recs |-> recs[i].row.Invoice_GUID], LAMBDA g : g # <<>>)

\* C6: output order.  GUID-keyed records precede ledger-only records; the
\* GUID-keyed records are in strictly increasing order of Invoice_GUID and
\* the ledger-only records in strictly increasing order of Invoice_Number.
\* Exchanging two neighbouring ledger or manifest rows leaves the sequence
\* of record keys as it is, and exchanging two neighbouring invoice rows
\* leaves the sequence of GUIDs as it is.
C6_DeterministicOrder ==
  Reconciled =>
    /\ \A r, q \in DOMAIN master_rows :
         r < q =>
           /\ master_rows[r].Invoice_GUID = <<>> => master_rows[q].Invoice_GUID = <<>>
           /\ (master_rows[r].Invoice_GUID # <<>> /\ master_rows[q].Invoice_GUID # <<>>) =>
                str_lt(master_rows[r].Invoice_GUID, master_rows[q].Invoice_GUID)
           /\ (master_rows[r].Invoice_GUID = <<>> /\ master_rows[q].Invoice_GUID = <<>>) =>
                str_lt(master_rows[r].Invoice_Number, master_rows[q].Invoice_Number)
    /\ \A lrows \in Exchanges(ledger_rows), mrows \in Exchanges(manifest_rows) :
         KeysOf(main_records(year, lrows, invoice_rows, mrows))
           = [r \in DOMAIN master_rows |->
                <<master_rows[r].Invoice_GUID, master_rows[r].Invoice_Number>>]
    /\ \A irows \in Exchanges(invoice_rows) :
         GuidsOf(main_records(year, ledger_rows, irows, manifest_rows))
           = SelectSeq([r \in DOMAIN master_rows |-> master_rows[r].Invoice_GUID],
                       LAMBDA x : x # <<>>)

\* A run whose rows arrive in decreasing key order and yield two GUID-keyed
\* records followed by a ledger-only record.
C6_Witness ==
  /\ pc = "finished"
  /\ Len(master_rows) = 3
  /\ master_rows[2].Invoice_GUID # <<>>
  /\ master_rows[3].Invoice_GUID = <<>>
  /\ Len(manifest_rows) = 2
  /\ str_lt(manifest_guid_key(manifest_rows[2]), manifest_guid_key(manifest_rows[1]))

\* ------------------------------------------------------------------ C7
\* The positions of the candidate headers whose cell in the row is not empty
\* after trimming.
NonBlankAt(row, candidates) ==
  {c \in DOMAIN candidates :
     candidates[c] \in DOMAIN row /\ ~Blank(row[candidates[c]])}

\* The trimmed cell of the first such header, "" when there is none.
FirstNonBlank(row, candidates) ==
  IF NonBlankAt(row, candidates) = {} THEN <<>>
  ELSE LET c == CHOOSE x \in NonBlankAt(row, candidates) :
                  \A y \in NonBlankAt(row, candidates) : x <= y
       IN  strip(row[candidates[c]])

LedgerKeyHeaders == <<"Invoice Number", "Invoice number", "Invoice">>
GuidHeaders == <<"Invoice ID", "InvoiceId", "Invoice_GUID">>
InvnumHeaders == <<"Xero number", "Invoice Number", "Invoice number", "Invoice">>
PdfHeaders == <<"PDF_Path", "PdfPath", "FilePath", "Path">>

\* C7: every key extractor returns the normalised (trimmed, case-folded)
\* cell of the first candidate header whose cell is not empty after
\* normalisation, and "" when no candidate has one.
C7_FirstNonEmptyCandidate ==
  /\ \A i \in DOMAIN ledger_rows :
       ledger_invoice_key(ledger_rows[i])
         = upper(FirstNonBlank(ledger_rows[i], LedgerKeyHeaders))
  /\ \A i \in DOMAIN invoice_rows :
       /\ invoice_guid_key(invoice_rows[i])
            = lower(FirstNonBlank(invoice_rows[i], GuidHeaders))
       /\ invoice_number_key(invoice_rows[i])
            = upper(FirstNonBlank(invoice_rows[i], InvnumHeaders))
  /\ \A i \in DOMAIN manifest_rows :
       /\ manifest_guid_key(manifest_rows[i])
            = lower(FirstNonBlank(manifest_rows[i], GuidHeaders))
       /\ manifest_pdf_path(manifest_rows[i])
            = FirstNonBlank(manifest_rows[i], PdfHeaders)

\* ------------------------------------------------------------------ C8
\* C8: in every Master Record In_Ledger is "Y" exactly when Ledger_Row_Count
\* is positive and In_Manifest is "Y" exactly when Manifest_Row_Count is
\* positive; the counts are the numbers of rows indexed under the record's
\* Invoice_Number and GUID; a ledger-only record is in the ledger with at
\* least one row and not in the manifest.
C8_PresenceFlags ==
  \A r \in DOMAIN master_rows :
    LET m == master_rows[r]
    IN  /\ (m.In_Ledger = "Y") <=> (m.Ledger_Row_Count > 0)
        /\ m.In_Ledger \in {"Y", "N"}
        /\ (m.In_Manifest = "Y") <=> (m.Manifest_Row_Count > 0)
        /\ m.In_Manifest \in {"Y", "N"}
        /\ m.Ledger_Row_Count
             = IF m.Invoice_Number = <<>> THEN 0
               ELSE Cardinality({i \in DOMAIN ledger_rows :
                      ledger_invoice_key(ledger_rows[i]) = m.Invoice_Number})
        /\ m.Manifest_Row_Count
             = IF m.Invoice_GUID = <<>> THEN 0
               ELSE Cardinality({i \in DOMAIN manifest_rows :
                      manifest_guid_key(manifest_rows[i]) = m.Invoice_GUID})
        /\ m.Invoice_GUID = <<>> =>
             /\ m.In_Ledger = "Y" /\ m.Ledger_Row_Count >= 1
             /\ m.In_Manifest = "N" /\ m.Manifest_Row_Count = 0

\* A run with a record in the ledger through two rows, a record in the
\* manifest but not in the ledger, and a ledger-only record.
C8_Witness ==
  /\ pc = "finished"
  /\ \E r \in GuidRecords :
       master_rows[r].In_Ledger = "N" /\ master_rows[r].In_Manifest = "Y"
  /\ \E r \in LedgerOnlyRecords : master_rows[r].Ledger_Row_Count = 2

\* ------------------------------------------------------------------ C9
\* What one row contributes: the parsed amount of the first candidate header
\* whose cell is not empty after trimming, zero when there is none.
Contribution(row, candidates) ==
  IF NonBlankAt(row, candidates) = {} THEN 0
  ELSE LET c == CHOOSE x \in NonBlankAt(row, candidates) :
                  \A y \in NonBlankAt(row, candidates) : x <= y
       IN  safe_decimal(row[candidates[c]])

\* The first non-blank candidate cell of the row is no numeral.
FirstIsMalformed(row, candidates) ==
  /\ NonBlankAt(row, candidates) # {}
  /\ ~Decimal(remove_char(FirstNonBlank(row, candidates), ",")).ok

\* C9: sum_field adds one contribution per row, the parsed amount of the
\* first candidate header with a non-empty normalised cell; a row whose first
\* such cell is malformed adds zero without falling through to a later
\* header.  The gross total of a ledger-only record is the formatted sum of
\* the contributions of its rows.
C9_SumFieldFirstCandidate ==
  /\ sum_field(ledger_rows, GrossCandidates)
       = SumOver([i \in DOMAIN ledger_rows |->
                    Contribution(ledger_rows[i], GrossCandidates)],
                 DOMAIN ledger_rows)
  /\ sum_field(invoice_rows, LineCandidates)
       = SumOver([i \in DOMAIN invoice_rows |->
                    Contribution(invoice_rows[i], LineCandidates)],
                 DOMAIN invoice_rows)
  /\ \A i \in DOMAIN ledger_rows :
       FirstIsMalformed(ledger_rows[i], GrossCandidates) =>
         sum_field(<<ledger_rows[i]>>, GrossCandidates) = 0
  /\ \A r \in LedgerOnlyRecords :
       master_rows[r].Ledger_Gross_AUD
         = fmt2(SumOver([i \in DOMAIN ledger_rows |->
                           Contribution(ledger_rows[i], GrossCandidates)],
                        {matched[r][j] : j \in DOMAIN matched[r]}))

\* A run whose ledger holds a row with a blank first gross header and a
\* value under the second, and a row with a malformed first gross header and
\* a numeral under the second.
C9_Witness ==
  /\ pc = "finished"
  /\ \E i \in DOMAIN ledger_rows :
       /\ "Gross (AUD)" \in DOMAIN ledger_rows[i]
       /\ Blank(ledger_rows[i]["Gross (AUD)"])
       /\ Contribution(ledger_rows[i], GrossCandidates) > 0
  /\ \E i \in DOMAIN ledger_rows :
       /\ FirstIsMalformed(ledger_rows[i], GrossCandidates)
       /\ Cardinality(NonBlankAt(ledger_rows[i], GrossCandidates)) = 2
  /\ LedgerOnlyRecords # {}

\* ----------------------------------------------------------------- C10
\* The cell a key is read from: that of the first candidate header holding
\* a value (None when no header holds one).
KeyCell(row, candidates) ==
  LET held == {c \in DOMAIN candidates :
                 candidates[c] \in DOMAIN row /\ Truthy(row[candidates[c]])}
  IN  IF held = {} THEN None
      ELSE row[candidates[CHOOSE x \in held : \A y \in held : x <= y]]

\* Two cells hold the same non-empty key up to case and surrounding blanks.
SameKey(a, b) ==
  /\ a # None /\ b # None
  /\ strip(a) # <<>>
  /\ lower(strip(a)) = lower(strip(b))

KeyHeaders ==
  {"Invoice ID", "InvoiceId", "Invoice_GUID", "Xero number", "Invoice Number",
   "Invoice number", "Invoice"}

UpperKeys(rows) ==
  [i \in DOMAIN rows |->
     [h \in DOMAIN rows[i] |->
        IF h \in KeyHeaders /\ rows[i][h] # None THEN upper(rows[i][h])
        ELSE rows[i][h]]]

LowerKeys(rows) ==
  [i \in DOMAIN rows |->
     [h \in DOMAIN rows[i] |->
        IF h \in KeyHeaders /\ rows[i][h] # None THEN lower(rows[i][h])
        ELSE rows[i][h]]]

\* C10: the joins ignore letter case and surrounding blanks of the keys.  An
\* invoice row and a manifest row whose GUID cells agree up to case and
\* blanks share the one record of the trimmed lower-case GUID; a ledger row
\* whose invoice number agrees up to case and blanks with that of a record's
\* first invoice row is among the record's ledger rows; and changing the
\* case of the key cells does not change the number of Master Records.
C10_JoinsIgnoreCaseAndBlanks ==
  Reconciled =>
    /\ \A i \in DOMAIN invoice_rows, k \in DOMAIN manifest_rows :
         SameKey(KeyCell(invoice_rows[i], GuidHeaders),
                 KeyCell(manifest_rows[k], GuidHeaders)) =>
           LET g == lower(strip(KeyCell(invoice_rows[i], GuidHeaders)))
               hits == {r \in DOMAIN master_rows :
                          lower(master_rows[r].Invoice_GUID) = g}
           IN  /\ Cardinality(hits) = 1
               /\ \A r \in hits :
                    /\ master_rows[r].Invoice_GUID = g
                    /\ master_rows[r].Invoice_Line_Count >= 1
                    /\ master_rows[r].Manifest_Row_Count >= 1
    /\ \A r \in GuidRecords, l \in DOMAIN ledger_rows :
         (/\ master_rows[r].Invoice_GUID \in InvoiceGuidsSeen
          /\ SameKey(KeyCell(ledger_rows[l], LedgerKeyHeaders),
                     KeyCell(invoice_rows[FirstOfGroup(master_rows[r].Invoice_GUID)],
                             InvnumHeaders))) =>
           \E j \in DOMAIN matched[r] : matched[r][j] = l
    /\ Len(main_records(year, UpperKeys(ledger_rows), UpperKeys(invoice_rows),
                        UpperKeys(manifest_rows))) = Len(master_rows)
    /\ Len(main_records(year, LowerKeys(ledger_rows), LowerKeys(invoice_rows),
                        LowerKeys(manifest_rows))) = Len(master_rows)

\* The scenario of the specification, with the cases mixed: an invoice
\* "g1"/"a", a manifest row "G1" and a ledger row " A " give one record.
C10_Witness ==
  /\ pc = "finished"
  /\ Len(master_rows) = 1
  /\ master_rows[1].Invoice_GUID = <<"g", "1">>
  /\ master_rows[1].In_Ledger = "Y"
  /\ master_rows[1].In_Manifest = "Y"
  /\ \E k \in DOMAIN manifest_rows :
       KeyCell(manifest_rows[k], GuidHeaders) = <<"G", "1">>
  /\ \E l \in DOMAIN ledger_rows :
       KeyCell(ledger_rows[l], LedgerKeyHeaders) = <<" ", "A", " ">>

====
